---- MODULE Spec2Model ----
(***************************************************************************)
(* Model of MoE.forward (assets/Mixture-of-Experts/moe_torch.py): one      *)
(* worker per expert, every worker runs the same straight-line forward     *)
(* pass and meets its peers only in the collectives of torch.distributed.  *)
(* Indices of rows, positions, slots, workers and buffer offsets are       *)
(* 0-based as in the source; buffers are sequences (1-based), so buffer    *)
(* index p of the source is element p+1 of the sequence.                   *)
(***************************************************************************)
EXTENDS Integers, Sequences, FiniteSets, TLC

\* ---------------------------------------------------------------- bounds
NumExperts == 2
n_embd == 2
MaxT == 2
MaxB == 2
MaxElems == 6
MaxPasses == 2
CapacityFactors == {<<1, 1>>, <<2, 1>>}     \* capacity_factor as num/den
PaddingVals == {0, 1}
ProbKinds == {"uniform", "graded"}

Workers == 0 .. (NumExperts - 1)
C == n_embd
M == 3

VARIABLES
  T, B, k, capacity_factor, padding_val, drop_last,   \* shape and configuration
  topk_experts, topk_probs,                            \* router output
  pc, err, batch_inits,
  ids_per_expert, probs_per_expert, send_count, recv_count,
  send_ids, recv_ids, send_toks, recv_toks,
  uniq_rows, recv_row_lens, recv_row_offsets,
  batch_toks, batch_out, batch_row_len,
  out,
  pass,                                                \* per worker: forward passes returned so far
  wire,                                                \* payloads posted to a collective
  trace                                                \* per worker: collectives posted/completed

cfgVars == <<T, B, k, capacity_factor, padding_val, drop_last, topk_experts, topk_probs>>
idVars == <<ids_per_expert, probs_per_expert, send_count>>
grpVars == <<uniq_rows, recv_row_lens, recv_row_offsets, batch_toks, batch_out, batch_row_len>>
vars == <<cfgVars, pc, err, batch_inits, idVars, recv_count, send_ids, recv_ids,
          send_toks, recv_toks, grpVars, out, pass, wire, trace>>

\* ------------------------------------------------------- generic helpers
Min(a, b) == IF a < b THEN a ELSE b

RECURSIVE SumUpTo(_, _)
SumUpTo(f, n) == IF n = 0 THEN 0 ELSE SumUpTo(f, n - 1) + f[n - 1]

RECURSIVE CatUpTo(_, _)
CatUpTo(f, n) == IF n = 0 THEN <<>> ELSE CatUpTo(f, n - 1) \o f[n - 1]

RECURSIVE Flatten(_)
Flatten(rows) == IF rows = <<>> THEN <<>> ELSE Head(rows) \o Flatten(Tail(rows))

View(flat, width) ==
  [i \in 1 .. (Len(flat) \div width) |-> SubSeq(flat, (i - 1) * width + 1, i * width)]

Fill(n, value) == [i \in 1 .. n |-> value]

Scale(f, scale) == [j \in DOMAIN f |-> f[j] * scale]

RECURSIVE SortSet(_)
SortSet(S) ==
  IF S = {} THEN <<>>
  ELSE LET m == CHOOSE a \in S : \A c \in S : a <= c
       IN <<m>> \o SortSet(S \ {m})

\* ------------------------------------------------- opaque collaborators
\* The input batch: every element carries its own, distinct feature vector.
x(w, b, t) == [c \in 1 .. C |-> 1000 * (w + 1) + 100 * b + 10 * t + c]

\* The local expert: a token-wise function of the feature vector.
Expert(e, v) == [c \in 1 .. Len(v) |-> (e + 2) * v[c] + 1]

\* ----------------------------------------------------------- the inputs
Elems(b, t) == (0 .. (b - 1)) \X (0 .. (t - 1))

TopKSeqs(kk) == {s \in [1 .. kk -> Workers] : \A i, j \in 1 .. kk : i # j => s[i] # s[j]}

Assignments(b, t, kk) ==
  {f \in [Workers -> UNION {[Elems(b[w], t) -> TopKSeqs(kk)] : w \in Workers}] :
     \A w \in Workers : DOMAIN f[w] = Elems(b[w], t)}

\* Router scores of the selected slots, non-increasing in the slot as topk returns them.
ProbTable(kind, b, t, kk) ==
  [w \in Workers |-> [el \in Elems(b[w], t) |->
     [s \in 1 .. kk |-> IF kind = "uniform" THEN 1 + kk - s
                        ELSE 10 * (1 + el[2] + t * el[1]) + (kk - s)]]]

NotPosted == [posted |-> FALSE, pass |-> 0, data |-> <<>>, splits |-> <<>>]
\* Variant: the result exchange is called before the feature exchange.
CollectiveOrder_resultsBeforeToks == <<"all_gather", "counts", "ids", "results", "toks">>

\* The collectives of one forward pass, in the order the source calls them.
CollectiveOrder == <<"all_gather", "counts", "ids", "toks", "results">>
GatherC == CollectiveOrder[1]
CountsC == CollectiveOrder[2]
IdsC == CollectiveOrder[3]
ToksC == CollectiveOrder[4]
ResultsC == CollectiveOrder[5]
Collectives == {CollectiveOrder[i] : i \in 1 .. Len(CollectiveOrder)}

InitLocals ==
  /\ pc = [w \in Workers |-> "setup"]
  /\ err = [w \in Workers |-> "none"]
  /\ batch_inits = [w \in Workers |-> <<>>]
  /\ ids_per_expert = [w \in Workers |-> <<>>]
  /\ probs_per_expert = [w \in Workers |-> <<>>]
  /\ send_count = [w \in Workers |-> <<>>]
  /\ recv_count = [w \in Workers |-> <<>>]
  /\ send_ids = [w \in Workers |-> <<>>]
  /\ recv_ids = [w \in Workers |-> <<>>]
  /\ send_toks = [w \in Workers |-> <<>>]
  /\ recv_toks = [w \in Workers |-> <<>>]
  /\ uniq_rows = [w \in Workers |-> <<>>]
  /\ recv_row_lens = [w \in Workers |-> <<>>]
  /\ recv_row_offsets = [w \in Workers |-> <<>>]
  /\ batch_toks = [w \in Workers |-> <<>>]
  /\ batch_out = [w \in Workers |-> <<>>]
  /\ batch_row_len = [w \in Workers |-> <<>>]
  /\ out = [w \in Workers |-> <<>>]
  /\ pass = [w \in Workers |-> 0]
  /\ wire = [c \in Collectives |-> [w \in Workers |-> NotPosted]]
  /\ trace = [w \in Workers |-> <<>>]

\* Any small shape, configuration and routing.  With drop_last the data loader
\* hands every worker the same batch size; T is at least the number of experts.
InitSmall ==
  \E t \in NumExperts .. MaxT, b \in [Workers -> 1 .. MaxB], kk \in 1 .. NumExperts,
     cf \in CapacityFactors, pad \in PaddingVals, dl \in BOOLEAN, kind \in ProbKinds :
    /\ dl => \A i, j \in Workers : b[i] = b[j]
    /\ SumUpTo(b, NumExperts) * t <= MaxElems
    /\ T = t /\ B = b /\ k = kk /\ capacity_factor = cf
    /\ padding_val = pad /\ drop_last = dl
    /\ topk_experts \in Assignments(b, t, kk)
    /\ topk_probs = ProbTable(kind, b, t, kk)

\* The end-to-end example: 2 workers, T=4, k=1, capacity_factor=1.0, alternating routing.
ExampleExperts ==
  [w \in 0 .. 1 |-> [el \in Elems(1, 4) |-> <<(el[2] + w) % 2>>]]

InitExample ==
  /\ NumExperts = 2
  /\ T = 4 /\ B = [w \in Workers |-> 1] /\ k = 1 /\ capacity_factor = <<1, 1>>
  /\ padding_val \in PaddingVals /\ drop_last \in BOOLEAN
  /\ topk_experts = ExampleExperts
  /\ \E kind \in ProbKinds : topk_probs = ProbTable(kind, B, T, k)

Init == InitLocals /\ (InitSmall \/ InitExample)

\* ------------------------------------------------------------ collectives
\* Variant: a part posted in an earlier pass is taken for the part of this pass.
AllPosted_anyPass(c, w) == \A j \in Workers : wire[c][j].posted

\* Collectives on a process group are matched in the order they are called: worker w
\* leaves collective c once every peer has called c in the same forward pass.
AllPosted(c, w) == \A j \in Workers : wire[c][j].posted /\ wire[c][j].pass = pass[w]

Post(c, w, data, splits) ==
  [wire EXCEPT ![c][w] = [posted |-> TRUE, pass |-> pass[w], data |-> data, splits |-> splits]]

\* dist.all_gather: every worker receives the list of all posted tensors, by rank.
all_gather(c) == [j \in Workers |-> wire[c][j].data[1]]

\* Variant: the counts are not exchanged, every worker keeps its own send counts.
all_to_all_local(c, w) == [j \in Workers |-> wire[c][w].data[j + 1]]

\* dist.all_to_all: output[j] on worker w is input[w] of worker j.
all_to_all(c, w) == [j \in Workers |-> wire[c][j].data[w + 1]]

\* Variant: every peer is sent the head of the buffer (the split offset is ignored).
Chunk_fromStart(c, j, w) == SubSeq(wire[c][j].data, 1, wire[c][j].splits[w])

\* The part of worker j's flat input that goes to worker w (input_split_sizes of j).
Chunk(c, j, w) ==
  LET off == SumUpTo(wire[c][j].splits, w)
  IN SubSeq(wire[c][j].data, off + 1, off + wire[c][j].splits[w])

\* Both sides of every pair must name the same size (else the collective fails).
ShapesAgree(c, w, out_splits) ==
  \A j \in Workers : wire[c][j].splits[w] = out_splits[j]

RECURSIVE CatDownFrom(_, _)
CatDownFrom(f, n) == IF n = 0 THEN <<>> ELSE f[n - 1] \o CatDownFrom(f, n - 1)

\* Variant: the chunks land in the opposite order of the ranks.
all_to_all_single_reversed(c, w) ==
  CatDownFrom([j \in Workers |-> SubSeq(wire[c][j].data,
                                          SumUpTo(wire[c][j].splits, w) + 1,
                                          SumUpTo(wire[c][j].splits, w) + wire[c][j].splits[w])],
              NumExperts)

\* dist.all_to_all_single: the chunks of all peers, concatenated by rank.
all_to_all_single(c, w) ==
  CatUpTo([j \in Workers |-> Chunk(c, j, w)], NumExperts)

Log(w, events) == [trace EXCEPT ![w] = @ \o events]

Fail(w, why) ==
  /\ pc' = [pc EXCEPT ![w] = "failed"]
  /\ err' = [err EXCEPT ![w] = why]

\* ------------------------------------------------------------- 0. SETUP
\* batch_inits with drop_last: i*B for i in range(num_experts+1)
BatchInitsFixed(w) == [i \in 0 .. NumExperts |-> i * B[w]]

\* Variant: rank * batch size with one gathered size, as if all sizes were equal.
BatchInitsGathered_lastSize(sizes) == [i \in 0 .. NumExperts |-> i * sizes[NumExperts - 1]]

\* batch_inits without drop_last: np.cumsum([0] + gathered batch sizes)
BatchInitsGathered(sizes) == [i \in 0 .. NumExperts |-> SumUpTo(sizes, i)]

Setup(w) ==
  /\ pc[w] = "setup"
  /\ IF drop_last
       THEN /\ batch_inits' = [batch_inits EXCEPT ![w] = BatchInitsFixed(w)]
            /\ pc' = [pc EXCEPT ![w] = "route"]
            /\ UNCHANGED <<wire, trace>>
       ELSE /\ wire' = Post(GatherC, w, <<B[w]>>, <<>>)
            /\ trace' = Log(w, <<<<"post", GatherC>>>>)
            /\ pc' = [pc EXCEPT ![w] = "gather"]
            /\ UNCHANGED batch_inits
  /\ UNCHANGED <<cfgVars, pass, err, idVars, recv_count, send_ids, recv_ids,
                 send_toks, recv_toks, grpVars, out>>

AllGather(w) ==
  /\ pc[w] = "gather"
  /\ AllPosted(GatherC, w)
  /\ batch_inits' = [batch_inits EXCEPT ![w] = BatchInitsGathered(all_gather(GatherC))]
  /\ trace' = Log(w, <<<<"complete", GatherC>>>>)
  /\ pc' = [pc EXCEPT ![w] = "route"]
  /\ UNCHANGED <<cfgVars, pass, err, idVars, recv_count, send_ids, recv_ids,
                 send_toks, recv_toks, grpVars, out, wire>>

\* -------------------------------------------- 1. ROUTING, 2. PERMUTATION
\* Variant: only the first slot of every element is matched against the expert.
Nonzero_firstSlot(w, expert) ==
  LET all == [i \in 1 .. (B[w] * T) |-> <<(i - 1) \div T, (i - 1) % T, 0>>]
  IN SelectSeq(all, LAMBDA id : topk_experts[w][<<id[1], id[2]>>][1] = expert)

\* (topk_experts == expert).nonzero(): the coordinates (b, t, slot), row-major.
Nonzero(w, expert) ==
  LET n == B[w] * T * k
      all == [i \in 1 .. n |-> <<(i - 1) \div (T * k), ((i - 1) \div k) % T, (i - 1) % k>>]
  IN SelectSeq(all, LAMBDA id : topk_experts[w][<<id[1], id[2]>>][id[3] + 1] = expert)

\* topk_probs[topk_experts == expert]: the scores of the same coordinates, same order.
MaskedProbs(w, expert) ==
  LET ids == Nonzero(w, expert)
  IN [i \in 1 .. Len(ids) |-> topk_probs[w][<<ids[i][1], ids[i][2]>>][ids[i][3] + 1]]

Route(w) ==
  /\ pc[w] = "route"
  /\ LET ids == [e \in Workers |-> Nonzero(w, e)]
         cnt == [e \in Workers |-> Len(ids[e])]
     IN /\ ids_per_expert' = [ids_per_expert EXCEPT ![w] = ids]
        /\ probs_per_expert' = [probs_per_expert EXCEPT ![w] = [e \in Workers |-> MaskedProbs(w, e)]]
        /\ send_count' = [send_count EXCEPT ![w] = cnt]
        /\ wire' = Post(CountsC, w, [i \in 1 .. NumExperts |-> cnt[i - 1]], <<>>)
  /\ trace' = Log(w, <<<<"post", CountsC>>>>)
  /\ pc' = [pc EXCEPT ![w] = CountsC]
  /\ UNCHANGED <<cfgVars, pass, err, batch_inits, recv_count, send_ids, recv_ids,
                 send_toks, recv_toks, grpVars, out>>

\* Variant: the processor's batch offset is not added to the row ids.
SendIds_noOffset(w) == CatUpTo(ids_per_expert[w], NumExperts)

\* torch.cat(ids_per_expert) with the processor's batch offset added to column 0
SendIds(w) ==
  LET cat == CatUpTo(ids_per_expert[w], NumExperts)
  IN [i \in 1 .. Len(cat) |-> <<cat[i][1] + batch_inits[w][w], cat[i][2], cat[i][3]>>]

\* torch.cat([x[ids[:,:2]] for ids in ids_per_expert])
SendToks(w) ==
  LET cat == CatUpTo(ids_per_expert[w], NumExperts)
  IN [i \in 1 .. Len(cat) |-> x(w, cat[i][1], cat[i][2])]

CountsExchange(w) ==
  /\ pc[w] = CountsC
  /\ AllPosted(CountsC, w)
  /\ LET rc == all_to_all(CountsC, w)
         sids == SendIds(w)
     IN /\ recv_count' = [recv_count EXCEPT ![w] = rc]
        /\ send_ids' = [send_ids EXCEPT ![w] = sids]
        /\ recv_ids' = [recv_ids EXCEPT ![w] = Fill(SumUpTo(rc, NumExperts) * M, 0)]
        /\ wire' = Post(IdsC, w, Flatten(sids), Scale(send_count[w], M))
  /\ trace' = Log(w, <<<<"complete", CountsC>>, <<"post", IdsC>>>>)
  /\ pc' = [pc EXCEPT ![w] = "meta"]
  /\ UNCHANGED <<cfgVars, pass, err, batch_inits, idVars, send_toks, recv_toks, grpVars, out>>

MetadataExchange(w) ==
  /\ pc[w] = "meta"
  /\ AllPosted(IdsC, w)
  /\ IF ShapesAgree(IdsC, w, Scale(recv_count[w], M))
       THEN /\ recv_ids' = [recv_ids EXCEPT ![w] = View(all_to_all_single(IdsC, w), M)]
            /\ send_toks' = [send_toks EXCEPT ![w] = SendToks(w)]
            /\ recv_toks' = [recv_toks EXCEPT ![w] = Fill(SumUpTo(recv_count[w], NumExperts) * C, 0)]
            /\ wire' = Post(ToksC, w, Flatten(SendToks(w)), Scale(send_count[w], C))
            /\ trace' = Log(w, <<<<"complete", IdsC>>, <<"post", ToksC>>>>)
            /\ pc' = [pc EXCEPT ![w] = "feat"]
            /\ UNCHANGED err
       ELSE /\ Fail(w, "collective")
            /\ UNCHANGED <<recv_ids, send_toks, recv_toks, wire, trace>>
  /\ UNCHANGED <<cfgVars, pass, batch_inits, idVars, recv_count, send_ids, grpVars, out>>

FeatureExchange(w) ==
  /\ pc[w] = "feat"
  /\ AllPosted(ToksC, w)
  /\ IF ShapesAgree(ToksC, w, Scale(recv_count[w], C))
       THEN /\ recv_toks' = [recv_toks EXCEPT ![w] = View(all_to_all_single(ToksC, w), C)]
            /\ trace' = Log(w, <<<<"complete", ToksC>>>>)
            /\ pc' = [pc EXCEPT ![w] = "compute"]
            /\ UNCHANGED err
       ELSE /\ Fail(w, "collective")
            /\ UNCHANGED <<recv_toks, trace>>
  /\ UNCHANGED <<cfgVars, pass, batch_inits, idVars, recv_count, send_ids, recv_ids,
                 send_toks, grpVars, out, wire>>

\* ------------------------------------- grouping, capacity, 3. COMPUTATION
\* recv_ids[:,0].unique(sorted=True, return_counts=True)
UniqRows(w) == SortSet({recv_ids[w][i][1] : i \in 1 .. Len(recv_ids[w])})

RowLens(w) ==
  LET u == UniqRows(w)
  IN [r \in 1 .. Len(u) |-> Cardinality({i \in 1 .. Len(recv_ids[w]) : recv_ids[w][i][1] = u[r]})]

\* Variant: the cumulative sums without the leading 0.
RowOffsets_noLeadingZero(lens) ==
  [r \in 1 .. (Len(lens) + 1) |->
     SumUpTo([i \in 0 .. (Len(lens) - 1) |-> lens[i + 1]], Min(r, Len(lens)))]

\* [0] + cumsum(recv_row_lens): entry r+1 is recv_row_offsets[r] of the source
RowOffsets(lens) ==
  [r \in 1 .. (Len(lens) + 1) |-> SumUpTo([i \in 0 .. (Len(lens) - 1) |-> lens[i + 1]], r - 1)]

\* Variant: the capacity is taken from the local number of elements B*T.
Capacity_fromBatch == (B[0] * T * capacity_factor[1]) \div (NumExperts * capacity_factor[2])

\* int(T / num_experts * capacity_factor)
Capacity == (T * capacity_factor[1]) \div (NumExperts * capacity_factor[2])

\* Variant: a group larger than the capacity keeps its last records, not its first.
pad_fn_keepLast(toks) ==
  [j \in 1 .. Capacity |->
     IF Len(toks) > Capacity THEN toks[Len(toks) - Capacity + j]
     ELSE IF j <= Len(toks) THEN toks[j] ELSE Fill(C, padding_val)]

\* F.pad(toks, (0,0,0,capacity-len)): pad at the end, or crop the end if negative
pad_fn(toks) ==
  [j \in 1 .. Capacity |-> IF j <= Len(toks) THEN toks[j] ELSE Fill(C, padding_val)]

\* recv_toks[recv_row_slice(row)] for row r (1-based here)
RowSlice(toks, offsets, r) == SubSeq(toks, offsets[r] + 1, offsets[r + 1])

\* Variant: the ranges start at 0 for every row (the row's offset is not added).
RECURSIVE RecvTokOffsets_noBase(_, _, _)
RecvTokOffsets_noBase(offsets, lens, n) ==
  IF n = 0 THEN <<>>
  ELSE RecvTokOffsets_noBase(offsets, lens, n - 1) \o [j \in 1 .. lens[n] |-> j - 1]

\* np.concatenate of range(recv_row_offsets[i], recv_row_offsets[i]+batch_row_len[i])
RECURSIVE RecvTokOffsets(_, _, _)
RecvTokOffsets(offsets, lens, n) ==
  IF n = 0 THEN <<>>
  ELSE RecvTokOffsets(offsets, lens, n - 1) \o [j \in 1 .. lens[n] |-> offsets[n] + j - 1]

\* Variant: the slots of a row are counted from its end, where the padding is.
RECURSIVE BatchTokOffsets_fromEnd(_, _)
BatchTokOffsets_fromEnd(lens, n) ==
  IF n = 0 THEN <<>>
  ELSE BatchTokOffsets_fromEnd(lens, n - 1) \o [j \in 1 .. lens[n] |-> <<n - 1, Capacity - j>>]

\* np.concatenate of [[i]*batch_row_len[i], range(batch_row_len[i])], as (row, slot) pairs
RECURSIVE BatchTokOffsets(_, _)
BatchTokOffsets(lens, n) ==
  IF n = 0 THEN <<>>
  ELSE BatchTokOffsets(lens, n - 1) \o [j \in 1 .. lens[n] |-> <<n - 1, j - 1>>]

\* recv_toks[recv_tok_offsets] = batch_toks[batch_tok_offsets[0], batch_tok_offsets[1]]
RECURSIVE Scatter(_, _, _, _, _)
Scatter(buf, offs, src, batch, n) ==
  IF n = 0 THEN buf
  ELSE [Scatter(buf, offs, src, batch, n - 1) EXCEPT
          ![offs[n] + 1] = batch[src[n][1] + 1][src[n][2] + 1]]

Compute(w) ==
  /\ pc[w] = "compute"
  /\ LET u == UniqRows(w)
         lens == RowLens(w)
         offs == RowOffsets(lens)
         btoks == [r \in 1 .. Len(u) |-> pad_fn(RowSlice(recv_toks[w], offs, r))]
         bout == [r \in 1 .. Len(u) |-> [j \in 1 .. Capacity |-> Expert(w, btoks[r][j])]]
         blen == [r \in 1 .. Len(u) |-> Min(lens[r], Capacity)]
         cleared == Fill(Len(recv_toks[w]), Fill(C, padding_val))
         results == Scatter(cleared, RecvTokOffsets(offs, blen, Len(u)),
                            BatchTokOffsets(blen, Len(u)), bout, SumUpTo([i \in 0 .. (Len(u) - 1) |-> blen[i + 1]], Len(u)))
     IN /\ uniq_rows' = [uniq_rows EXCEPT ![w] = u]
        /\ recv_row_lens' = [recv_row_lens EXCEPT ![w] = lens]
        /\ recv_row_offsets' = [recv_row_offsets EXCEPT ![w] = offs]
        /\ IF Len(u) = 0   \* torch.stack of an empty list raises
             THEN /\ Fail(w, "stack_empty")
                  /\ UNCHANGED <<batch_toks, batch_out, batch_row_len, recv_toks, send_toks, wire, trace>>
             ELSE /\ batch_toks' = [batch_toks EXCEPT ![w] = btoks]
                  /\ batch_out' = [batch_out EXCEPT ![w] = bout]
                  /\ batch_row_len' = [batch_row_len EXCEPT ![w] = blen]
                  /\ recv_toks' = [recv_toks EXCEPT ![w] = results]
                  /\ send_toks' = [send_toks EXCEPT ![w] = Fill(Len(send_toks[w]), Fill(C, padding_val))]
                  /\ wire' = Post(ResultsC, w, Flatten(results), Scale(recv_count[w], C))
                  /\ trace' = Log(w, <<<<"compute", "expert">>, <<"post", ResultsC>>>>)
                  /\ pc' = [pc EXCEPT ![w] = "result"]
                  /\ UNCHANGED err
  /\ UNCHANGED <<cfgVars, pass, batch_inits, idVars, recv_count, send_ids, recv_ids, out>>

\* -------------------------------------------- 4. UN-PERMUTATION, 5. SCALE
\* x *= torch.concatenate(probs_per_expert).view(-1,1)
Weighted(rows, probs) ==
  [i \in 1 .. Len(rows) |-> [c \in 1 .. C |-> rows[i][c] * probs[i]]]

\* x[send_ids[:,-1]==kk]: the rows of slot kk, in send-buffer order
SlotRows(rows, ids, kk) ==
  LET idx == SelectSeq([i \in 1 .. Len(rows) |-> i], LAMBDA i : ids[i][3] = kk)
  IN [n \in 1 .. Len(idx) |-> rows[idx[n]]]

\* torch.stack(parts).sum(dim=0): row n is the sum of row n of every part
SumOverSlots(parts) ==
  [n \in 1 .. Len(parts[0]) |->
     [c \in 1 .. C |-> SumUpTo([kk \in 0 .. (k - 1) |-> parts[kk][n][c]], k)]]

\* Variant: the K slots are not summed.
Combined_noSum(w, received) ==
  Weighted(View(received, C), CatUpTo(probs_per_expert[w], NumExperts))

\* lines 111-114: the rows handed to view(B,T,C)
Combined(w, received) ==
  LET scaled == Weighted(View(received, C), CatUpTo(probs_per_expert[w], NumExperts))
  IN IF k > 1
       THEN SumOverSlots([kk \in 0 .. (k - 1) |-> SlotRows(scaled, send_ids[w], kk)])
       ELSE scaled

\* x.view(B,T,C)
View3(rows, w) == [b \in 1 .. B[w] |-> [t \in 1 .. T |-> rows[(b - 1) * T + t]]]

ResultExchange(w) ==
  /\ pc[w] = "result"
  /\ AllPosted(ResultsC, w)
  /\ IF ~ShapesAgree(ResultsC, w, Scale(send_count[w], C))
       THEN /\ Fail(w, "collective")
            /\ UNCHANGED <<send_toks, out, trace>>
       ELSE LET received == all_to_all_single(ResultsC, w)
                parts == [kk \in 0 .. (k - 1) |->
                            SlotRows(View(received, C), send_ids[w], kk)]
            IN /\ send_toks' = [send_toks EXCEPT ![w] = View(received, C)]
               /\ trace' = Log(w, <<<<"complete", ResultsC>>>>)
               /\ IF k > 1 /\ \E kk \in 1 .. (k - 1) : Len(parts[kk]) # Len(parts[0])
                    THEN /\ Fail(w, "stack_shape") \* torch.stack needs equal shapes
                         /\ UNCHANGED out
                    ELSE IF Len(Combined(w, received)) # B[w] * T
                    THEN /\ Fail(w, "view")        \* view(B,T,C) needs B*T rows
                         /\ UNCHANGED out
                    ELSE /\ out' = [out EXCEPT ![w] = View3(Combined(w, received), w)]
                         /\ pc' = [pc EXCEPT ![w] = "done"]
                         /\ UNCHANGED err
  /\ UNCHANGED <<cfgVars, pass, batch_inits, idVars, recv_count, send_ids, recv_ids,
                 recv_toks, grpVars, wire>>

Next ==
  \E w \in Workers :
    \/ Setup(w)
    \/ AllGather(w)
    \/ Route(w)
    \/ CountsExchange(w)
    \/ MetadataExchange(w)
    \/ FeatureExchange(w)
    \/ Compute(w)
    \/ ResultExchange(w)

Spec == Init /\ [][Next]_vars

\* ------------------------------------------------- consecutive forward passes
\* The training loop calls the model again once the forward pass has returned: the
\* locals of the next call of forward are fresh, the collectives go to the same group.
NextPass(w) ==
  /\ pc[w] = "done"
  /\ pass[w] + 1 < MaxPasses
  /\ pass' = [pass EXCEPT ![w] = @ + 1]
  /\ pc' = [pc EXCEPT ![w] = "setup"]
  /\ batch_inits' = [batch_inits EXCEPT ![w] = <<>>]
  /\ ids_per_expert' = [ids_per_expert EXCEPT ![w] = <<>>]
  /\ probs_per_expert' = [probs_per_expert EXCEPT ![w] = <<>>]
  /\ send_count' = [send_count EXCEPT ![w] = <<>>]
  /\ recv_count' = [recv_count EXCEPT ![w] = <<>>]
  /\ send_ids' = [send_ids EXCEPT ![w] = <<>>]
  /\ recv_ids' = [recv_ids EXCEPT ![w] = <<>>]
  /\ send_toks' = [send_toks EXCEPT ![w] = <<>>]
  /\ recv_toks' = [recv_toks EXCEPT ![w] = <<>>]
  /\ uniq_rows' = [uniq_rows EXCEPT ![w] = <<>>]
  /\ recv_row_lens' = [recv_row_lens EXCEPT ![w] = <<>>]
  /\ recv_row_offsets' = [recv_row_offsets EXCEPT ![w] = <<>>]
  /\ batch_toks' = [batch_toks EXCEPT ![w] = <<>>]
  /\ batch_out' = [batch_out EXCEPT ![w] = <<>>]
  /\ batch_row_len' = [batch_row_len EXCEPT ![w] = <<>>]
  /\ out' = [out EXCEPT ![w] = <<>>]
  /\ trace' = [trace EXCEPT ![w] = <<>>]
  /\ UNCHANGED <<cfgVars, err, wire>>

\* The training loop of the script: batch_size = 1 on every worker.
InitPasses == Init /\ \A w \in Workers : B[w] = 1

NextPasses == Next \/ \E w \in Workers : NextPass(w)

SpecPasses == InitPasses /\ [][NextPasses]_vars

\* =============================================================== properties
\* Vocabulary of the properties below.
Posted(w, c) == \E i \in 1 .. Len(trace[w]) : trace[w][i] = <<"post", c>>
Completed(w, c) == \E i \in 1 .. Len(trace[w]) : trace[w][i] = <<"complete", c>>
AllDone == \A w \in Workers : pc[w] = "done"

Pairs(w) == {<<el[1], el[2], s>> : el \in Elems(B[w], T), s \in 0 .. (k - 1)}
SelectedExpert(w, b, t, s) == topk_experts[w][<<b, t>>][s + 1]
Weight(w, b, t, s) == topk_probs[w][<<b, t>>][s + 1]
GlobalRow(w, b) == batch_inits[w][w] + b

\* The pairs <<worker, b, t, slot>> of all workers that the routing sends to expert e.
SentTo(e) ==
  UNION {{<<j, pr[1], pr[2], pr[3]>> :
            pr \in {q \in Pairs(j) : SelectedExpert(j, q[1], q[2], q[3]) = e}} : j \in Workers}

\* Receive-buffer offsets whose result expert e wrote back, and the ones it dropped.
KeptOffsets(e) ==
  LET offs == RecvTokOffsets(recv_row_offsets[e], batch_row_len[e], Len(uniq_rows[e]))
  IN {offs[n] : n \in 1 .. Len(offs)}
DroppedIdx(e) == {p \in 0 .. (Len(recv_ids[e]) - 1) : p \notin KeptOffsets(e)}

Truncated(w, b, t, s) ==
  LET e == SelectedExpert(w, b, t, s)
  IN \E p \in DroppedIdx(e) : recv_ids[e][p + 1] = <<GlobalRow(w, b), t, s>>

\* expert_e(x[w][b][t]) * weight of slot s
WeightedExpert(w, b, t, s) ==
  LET y == Expert(SelectedExpert(w, b, t, s), x(w, b, t))
  IN [c \in 1 .. C |-> y[c] * Weight(w, b, t, s)]

\* What worker w got back for a pair, after weighting (line 112).
SendIndex(w, b, t, s) ==
  CHOOSE p \in 1 .. Len(send_ids[w]) : send_ids[w][p] = <<GlobalRow(w, b), t, s>>
Contribution(w, b, t, s) ==
  Weighted(send_toks[w], CatUpTo(probs_per_expert[w], NumExperts))[SendIndex(w, b, t, s)]

Zeros == Fill(C, 0)

\* C1 (identity preservation, K=1): on a worker that returned, the output at index
\* (b, t) of every element whose single slot was not truncated is the selected
\* expert's output on that element's own features times its top-1 score.
C1_IdentityPreservation ==
  \A w \in Workers : (pc[w] = "done" /\ k = 1) =>
    \A el \in Elems(B[w], T) :
      ~Truncated(w, el[1], el[2], 0) =>
        out[w][el[1] + 1][el[2] + 1] = WeightedExpert(w, el[1], el[2], 0)

\* C2 (weight application, K>1): on a worker that returned, the output at index (b, t)
\* of every element with no truncated slot is the sum over its own K slots of
\* expert_k(x[b][t]) * weight_k.
C2_WeightApplication ==
  \A w \in Workers : (pc[w] = "done" /\ k > 1) =>
    \A el \in Elems(B[w], T) :
      (\A s \in 0 .. (k - 1) : ~Truncated(w, el[1], el[2], s)) =>
        out[w][el[1] + 1][el[2] + 1] =
          [c \in 1 .. C |->
             SumUpTo([s \in 0 .. (k - 1) |-> WeightedExpert(w, el[1], el[2], s)[c]], k)]

\* C3 (truncated slots contribute zero): for every padding value and weight, what the
\* origin worker holds for a truncated pair after weighting is the zero vector.
C3_TruncatedIsZero ==
  \A w \in Workers : pc[w] = "done" =>
    \A pr \in Pairs(w) :
      Truncated(w, pr[1], pr[2], pr[3]) => Contribution(w, pr[1], pr[2], pr[3]) = Zeros

\* C4 (empty assignment group): a worker that received zero pairs in the feature
\* exchange does not fail; it goes on to the result exchange.
C4_EmptyGroupContinues ==
  \A w \in Workers :
    (Completed(w, ToksC) /\ Len(recv_ids[w]) = 0) => pc[w] # "failed"

\* --------------------------------------------------------------------- C5
IsExample ==
  /\ T = 4 /\ k = 1 /\ capacity_factor = <<1, 1>>
  /\ B = [w \in Workers |-> 1]
  /\ topk_experts = ExampleExperts

C6_RoundTripShape ==
  \A w \in Workers :
    /\ err[w] \notin {"view", "stack_shape"}
    /\ pc[w] = "done" =>
         /\ Len(out[w]) = B[w]
         /\ \A b \in 1 .. B[w] :
              /\ Len(out[w][b]) = T
              /\ \A t \in 1 .. T : Len(out[w][b][t]) = C

C6_Witness ==
  /\ AllDone /\ k = 2 /\ ~drop_last /\ B[0] # B[1]
  /\ \E w \in Workers : \E pr \in Pairs(w) : Truncated(w, pr[1], pr[2], pr[3])

\* --------------------------------------------------------------------- C7
\* C7 (permutation conservation): once the worker owning expert e has completed the
\* metadata exchange it holds exactly one record per pair that any worker routed to e
\* (none lost, none duplicated), and after the feature exchange one feature vector
\* per such pair.
C7_PermutationConservation ==
  \A e \in Workers :
    /\ Completed(e, IdsC) =>
         /\ Len(recv_ids[e]) = Cardinality(SentTo(e))
         /\ {recv_ids[e][i] : i \in 1 .. Len(recv_ids[e])} =
              {<<GlobalRow(q[1], q[2]), q[3], q[4]>> : q \in SentTo(e)}
    /\ (Completed(e, ToksC) /\ ~Posted(e, ResultsC)) =>
         /\ Len(recv_toks[e]) = Cardinality(SentTo(e))
         /\ {recv_toks[e][i] : i \in 1 .. Len(recv_toks[e])} =
              {x(q[1], q[2], q[3]) : q \in SentTo(e)}

C7_Witness ==
  \E e \in Workers :
    /\ Completed(e, ToksC) /\ ~Posted(e, ResultsC)
    /\ \A j \in Workers : recv_count[e][j] >= 1
    /\ Len(recv_ids[e]) >= 3

\* --------------------------------------------------------------------- C8
\* C8 (counts symmetry): after the counts exchange recv_count[j][i] = send_count[i][j]
\* for all workers i, j, and the receive buffers worker j allocates for metadata and
\* features have exactly the size of what its peers send it in the two exchanges.
C8_CountsSymmetry ==
  \A j \in Workers : Completed(j, CountsC) =>
    /\ \A i \in Workers :
         /\ recv_count[j][i] = send_count[i][j]
         /\ wire[IdsC][i].posted => Len(Chunk(IdsC, i, j)) = recv_count[j][i] * M
         /\ wire[ToksC][i].posted => Len(Chunk(ToksC, i, j)) = recv_count[j][i] * C
    /\ pc[j] = "meta" =>
         Len(recv_ids[j]) = SumUpTo([i \in Workers |-> Len(ids_per_expert[i][j]) * M], NumExperts)
    /\ pc[j] = "feat" =>
         Len(recv_toks[j]) = SumUpTo([i \in Workers |-> Len(ids_per_expert[i][j]) * C], NumExperts)

C8_Witness ==
  \E j \in Workers :
    /\ pc[j] = "feat"
    /\ \E i \in Workers : i # j /\ recv_count[j][i] >= 2 /\ recv_count[j][i] # send_count[j][i]
    /\ wire[ToksC][1 - j].posted

\* --------------------------------------------------------------------- C9
IsPrefix(s, t) == Len(s) <= Len(t) /\ \A i \in 1 .. Len(s) : s[i] = t[i]

ExpectedOrder ==
  (IF drop_last THEN <<>> ELSE <<<<"post", "all_gather">>, <<"complete", "all_gather">>>>)
  \o << <<"post", "counts">>, <<"complete", "counts">>,
        <<"post", "ids">>, <<"complete", "ids">>,
        <<"post", "toks">>, <<"complete", "toks">>,
        <<"compute", "expert">>,
        <<"post", "results">>, <<"complete", "results">> >>

\* C9 (collective ordering): what a worker has posted and completed so far is always
\* an initial part of one fixed sequence - counts, metadata, features, local expert
\* compute, results - whatever the routing; so no result exchange is posted before the
\* feature exchange completed and no payload exchange before the counts exchange did.
C9_CollectiveOrdering ==
  \A w \in Workers : IsPrefix(trace[w], ExpectedOrder)

C9_Witness ==
  /\ \A w \in Workers : trace[w] = ExpectedOrder
  /\ topk_experts[0] # topk_experts[1]

\* -------------------------------------------------------------------- C10
\* The pair <<worker, b, t, slot>> a received metadata record stands for.
OriginOf(e, rec) ==
  LET j == CHOOSE i \in Workers : batch_inits[e][i] <= rec[1] /\ rec[1] < batch_inits[e][i + 1]
  IN <<j, rec[1] - batch_inits[e][j], rec[2], rec[3]>>

DroppedPairs(e) == {OriginOf(e, recv_ids[e][p + 1]) : p \in DroppedIdx(e)}

\* The pairs sent to e that at least `capacity` pairs of the same row, also sent to e,
\* precede in row-major order.
DroppedByRule(e) ==
  {q \in SentTo(e) :
     Cardinality({r \in SentTo(e) :
                    /\ r[1] = q[1] /\ r[2] = q[2]
                    /\ (r[3] < q[3] \/ (r[3] = q[3] /\ r[4] < q[4]))}) >= Capacity}

\* C10 (truncation determinism): the set of pairs expert e truncates is a function of
\* the inputs, the assignment and the capacity alone - in every interleaving of the
\* workers it is the set of pairs beyond the first `capacity` of their row.
C10_TruncationDeterminism ==
  \A e \in Workers : Posted(e, ResultsC) => DroppedPairs(e) = DroppedByRule(e)

C10_Witness ==
  \E e \in Workers :
    /\ Posted(e, ResultsC)
    /\ Cardinality(DroppedPairs(e)) >= 2
    /\ \E q, r \in DroppedPairs(e) : q[1] # r[1]
    /\ pc[1 - e] \in {"feat", "compute"}

\* -------------------------------------------------------------------- C12
\* c is floor(T / num_experts * capacity_factor): the integer c with
\* c <= T * capacity_factor / num_experts < c + 1.
IsFloorOfCapacity(c) ==
  /\ c * NumExperts * capacity_factor[2] <= T * capacity_factor[1]
  /\ T * capacity_factor[1] < (c + 1) * NumExperts * capacity_factor[2]

GroupIdx(e, g) ==
  SelectSeq([i \in 1 .. Len(recv_ids[e]) |-> i], LAMBDA i : recv_ids[e][i][1] = g)

\* The feature vector of the element a received metadata record stands for.
FeatureOf(e, rec) ==
  LET o == OriginOf(e, rec)
  IN x(o[1], o[2], o[3])

\* C13 (capacity-bounded grouping): the expert batch of worker e has one row per
\* distinct global row id received, each of exactly `capacity` slots; the first
\* min(group size, capacity) slots hold the features of the first records of the
\* group in arrival order, the other slots hold padding_val, and the recorded row
\* length is min(group size, capacity).
C13_CapacityBoundedGrouping ==
  \A e \in Workers : Posted(e, ResultsC) =>
    LET rows == {recv_ids[e][i][1] : i \in 1 .. Len(recv_ids[e])}
    IN /\ Len(batch_toks[e]) = Cardinality(rows)
       /\ Len(batch_row_len[e]) = Cardinality(rows)
       /\ {uniq_rows[e][r] : r \in 1 .. Len(uniq_rows[e])} = rows
       /\ \A r \in 1 .. Len(batch_toks[e]) :
            LET grp == GroupIdx(e, uniq_rows[e][r])
                real == Min(Len(grp), Capacity)
            IN /\ Len(batch_toks[e][r]) = Capacity
               /\ batch_row_len[e][r] = real
               /\ \A j \in 1 .. Capacity :
                    batch_toks[e][r][j] =
                      IF j <= real THEN FeatureOf(e, recv_ids[e][grp[j]])
                      ELSE Fill(C, padding_val)

C13_Witness ==
  \E e \in Workers :
    /\ Posted(e, ResultsC)
    /\ Len(uniq_rows[e]) >= 2
    /\ \E r \in 1 .. Len(uniq_rows[e]) : Len(GroupIdx(e, uniq_rows[e][r])) > Capacity
    /\ \E r \in 1 .. Len(uniq_rows[e]) : Len(GroupIdx(e, uniq_rows[e][r])) = Capacity
    /\ padding_val = 1

\* -------------------------------------------------------------------- C14
\* The local pair <<b, t, slot>> worker w placed at send-buffer index p (1-based).
SentPair(w, p) == CatUpTo(ids_per_expert[w], NumExperts)[p]

\* C14 (result round trip): after the result exchange, index p of worker w's buffer
\* holds the output of the destination expert on the feature vector w had placed at
\* index p of its send buffer if that pair was kept, and padding_val if the pair was
\* truncated; so every result is back on the worker and at the index it left from.
C14_ResultRoundTrip ==
  \A w \in Workers : Completed(w, ResultsC) =>
    /\ Len(send_toks[w]) = Len(send_ids[w])
    /\ \A p \in 1 .. Len(send_ids[w]) :
         LET q == SentPair(w, p)
             e == SelectedExpert(w, q[1], q[2], q[3])
         IN send_toks[w][p] =
              IF <<w, q[1], q[2], q[3]>> \in DroppedByRule(e)
                THEN Fill(C, padding_val)
                ELSE Expert(e, SendToks(w)[p])

C14_Witness ==
  \E w \in Workers :
    /\ Completed(w, ResultsC)
    /\ \E p, q \in 1 .. Len(send_ids[w]) :
         /\ p < q
         /\ SelectedExpert(w, SentPair(w, p)[1], SentPair(w, p)[2], SentPair(w, p)[3]) = w
         /\ SelectedExpert(w, SentPair(w, q)[1], SentPair(w, q)[2], SentPair(w, q)[3]) # w
         /\ send_toks[w][q] # Fill(C, padding_val)
    /\ \E p \in 1 .. Len(send_ids[w]) : send_toks[w][p] = Fill(C, padding_val)
    /\ Len(send_ids[1 - w]) > 0

\* -------------------------------------------------------------------- C15
\* C15 (global row ids): in the send buffers, two entries of different workers never
\* carry the same global row id, and two entries of one worker carry the same id only
\* if they are of the same local row; the offset added is rank * B with drop_last and
\* the sum of the batch sizes of the lower ranks without it.
C15_GlobalRowIdsUnique ==
  /\ \A v, w \in Workers : Posted(v, IdsC) /\ Posted(w, IdsC) =>
       \A p \in 1 .. Len(send_ids[v]), q \in 1 .. Len(send_ids[w]) :
         send_ids[v][p][1] = send_ids[w][q][1] =>
           v = w /\ SentPair(v, p)[1] = SentPair(w, q)[1]
  /\ \A w \in Workers : Posted(w, IdsC) =>
       /\ Len(send_ids[w]) = B[w] * T * k
       /\ \A p \in 1 .. Len(send_ids[w]) :
            send_ids[w][p][1] - SentPair(w, p)[1] =
              IF drop_last THEN w * B[w] ELSE SumUpTo(B, w)

C15_Witness ==
  /\ \A w \in Workers : Posted(w, IdsC)
  /\ ~drop_last
  /\ B[0] = 2 /\ B[1] = 1
  /\ \E p \in 1 .. Len(send_ids[1]) : send_ids[1][p][1] = 2

\* -------------------------------------------------------------------- C16
\* The rows of the buffer worker e posted to the result exchange.
SentResults(e) == View(wire[ResultsC][e].data, C)

\* C16 (padding outputs are discarded): no row of the buffer an expert sends in the
\* result exchange is the expert's output on a padding slot; the row of a kept record
\* is the expert's output on the feature vector received for that record, and the row
\* of a truncated record is the untouched padding_val filler.
C16_PaddingDiscarded ==
  \A e \in Workers : Posted(e, ResultsC) =>
    /\ Len(SentResults(e)) = Len(recv_ids[e])
    /\ \A p \in 1 .. Len(recv_ids[e]) :
         /\ SentResults(e)[p] # Expert(e, Fill(C, padding_val))
         /\ SentResults(e)[p] =
              IF OriginOf(e, recv_ids[e][p]) \in DroppedByRule(e)
                THEN Fill(C, padding_val)
                ELSE Expert(e, FeatureOf(e, recv_ids[e][p]))

C16_Witness ==
  \E e \in Workers :
    /\ Posted(e, ResultsC)
    /\ padding_val = 1
    /\ Len(uniq_rows[e]) >= 2
    /\ \E r \in 1 .. Len(uniq_rows[e]) : batch_row_len[e][r] < Capacity
    /\ \E r \in 1 .. Len(uniq_rows[e]) :
         batch_out[e][r][Capacity] = Expert(e, Fill(C, padding_val))

\* -------------------------------------------------------------------- C18
\* Row-major order of the pairs <<worker, b, t, slot>>, workers by rank.
Precedes(q, r) ==
  \/ q[1] < r[1]
  \/ q[1] = r[1] /\ q[2] < r[2]
  \/ q[1] = r[1] /\ q[2] = r[2] /\ q[3] < r[3]
  \/ q[1] = r[1] /\ q[2] = r[2] /\ q[3] = r[3] /\ q[4] < r[4]

\* C18 (receive-buffer grouping): the metadata records a worker received are in
\* non-decreasing global row id order (peers by rank, each peer's records row-major);
\* the slice [offset[r], offset[r+1]) holds exactly the records of the r-th distinct
\* row id; and the feature vector received at an index is the one of the element the
\* metadata record at that index names.
C18_ReceiveBufferGrouping ==
  \A e \in Workers :
    /\ Completed(e, IdsC) =>
         \A i, j \in 1 .. Len(recv_ids[e]) : i < j =>
           /\ recv_ids[e][i][1] <= recv_ids[e][j][1]
           /\ Precedes(OriginOf(e, recv_ids[e][i]), OriginOf(e, recv_ids[e][j]))
    /\ pc[e] = "compute" =>
         /\ Len(recv_toks[e]) = Len(recv_ids[e])
         /\ \A i \in 1 .. Len(recv_ids[e]) : recv_toks[e][i] = FeatureOf(e, recv_ids[e][i])
    /\ Posted(e, ResultsC) =>
         /\ Len(recv_row_offsets[e]) = Len(uniq_rows[e]) + 1
         /\ \A r, q \in 1 .. Len(uniq_rows[e]) : r < q => uniq_rows[e][r] < uniq_rows[e][q]
         /\ \A i \in 1 .. Len(recv_ids[e]) :
              \E r \in 1 .. Len(uniq_rows[e]) : uniq_rows[e][r] = recv_ids[e][i][1]
         /\ \A r \in 1 .. Len(uniq_rows[e]) :
              {i \in 1 .. Len(recv_ids[e]) :
                 recv_row_offsets[e][r] < i /\ i <= recv_row_offsets[e][r + 1]}
                = {i \in 1 .. Len(recv_ids[e]) : recv_ids[e][i][1] = uniq_rows[e][r]}

C18_Witness ==
  \E e \in Workers :
    /\ Posted(e, ResultsC)
    /\ Len(uniq_rows[e]) = 3
    /\ \E r \in 1 .. 3 : recv_row_lens[e][r] = 2
    /\ recv_count[e][0] > 0 /\ recv_count[e][1] > 0
    /\ pc[1 - e] = "compute"
    /\ Len(recv_ids[1 - e]) >= 2

\* -------------------------------------------------------------------- C19
\* Where the local pair <<b, t, slot>> appears in worker w's send groups:
\* the <<expert, index>> positions of ids_per_expert that hold it.
Appearances(w, b, t, s) ==
  {ei \in Workers \X (1 .. (B[w] * T * k)) :
     /\ ei[2] <= Len(ids_per_expert[w][ei[1]])
     /\ ids_per_expert[w][ei[1]][ei[2]] = <<b, t, s>>}

\* C19 (send accounting): every local element is in the send groups exactly K times,
\* once per slot and each time under another expert; the send counts are the sizes of
\* the groups and sum to B*T*K; and exactly B*T entries of the send buffer carry slot
\* s, for every slot s.
C19_SendAccounting ==
  \A w \in Workers :
    /\ Posted(w, CountsC) =>
         /\ \A q \in Pairs(w) : Cardinality(Appearances(w, q[1], q[2], q[3])) = 1
         /\ \A q, r \in Pairs(w) :
              q[1] = r[1] /\ q[2] = r[2] /\ q[3] # r[3] =>
                \A a \in Appearances(w, q[1], q[2], q[3]), c \in Appearances(w, r[1], r[2], r[3]) :
                  a[1] # c[1]
         /\ \A e \in Workers : send_count[w][e] = Len(ids_per_expert[w][e])
         /\ SumUpTo(send_count[w], NumExperts) = B[w] * T * k
         /\ wire[CountsC][w].data = [i \in 1 .. NumExperts |-> send_count[w][i - 1]]
    /\ Posted(w, IdsC) =>
         /\ Len(send_ids[w]) = B[w] * T * k
         /\ \A s \in 0 .. (k - 1) :
              Cardinality({p \in 1 .. Len(send_ids[w]) : send_ids[w][p][3] = s}) = B[w] * T

C19_Witness ==
  \E w \in Workers :
    /\ Posted(w, IdsC)
    /\ k = 2 /\ B[w] = 2
    /\ \E p, q \in 1 .. send_count[w][0] :
         ids_per_expert[w][0][p][3] = 0 /\ ids_per_expert[w][0][q][3] = 1

\* -------------------------------------------------------------------- C17
\* Worker w is inside collective c: it has posted its part and waits for the peers'.
Waiting(w, c) == Posted(w, c) /\ ~Completed(w, c) /\ pc[w] # "failed"

\* C17 (progress of a pass): no worker is left waiting in a collective that a peer
\* never posts - whenever a worker waits in a collective, every peer has posted it or
\* is still running towards it (a worker that raised takes no further step, so a
\* worker waiting for it never completes the result exchange nor returns its output,
\* under any scheduling).
C17_NoWorkerLeftBlocked ==
  \A w, j \in Workers, c \in Collectives :
    Waiting(w, c) => Posted(j, c) \/ pc[j] # "failed"

\* -------------------------------------------------------------------- C11
\* The collectives a pass calls: all_gather only without drop_last.
CalledCollectives == IF drop_last THEN Collectives \ {GatherC} ELSE Collectives

\* Worker w has posted (completed) collective c of forward pass n; a worker that has
\* started a later pass has posted and completed every collective of pass n.
PostedIn(w, n, c) == pass[w] > n \/ (pass[w] = n /\ Posted(w, c))
CompletedIn(w, n, c) == pass[w] > n \/ (pass[w] = n /\ Completed(w, c))

\* The collectives some worker has posted and no worker has completed yet.
OpenCollectives ==
  {nc \in (0 .. (MaxPasses - 1)) \X CalledCollectives :
     /\ \E w \in Workers : PostedIn(w, nc[1], nc[2])
     /\ ~\E w \in Workers : CompletedIn(w, nc[1], nc[2])}

\* C11 (forward passes do not interleave): the collectives that are posted and that no
\* worker has completed yet all belong to one forward pass, and a worker that has
\* completed a collective of pass n+1 has only peers that completed the result
\* exchange of pass n.
C11_NoInterleaving ==
  /\ \A a, b \in OpenCollectives : a[1] = b[1]
  /\ \A w \in Workers, c \in CalledCollectives :
       pass[w] > 0 /\ Completed(w, c) =>
         \A j \in Workers : CompletedIn(j, pass[w] - 1, ResultsC)
  /\ \A c \in CalledCollectives, w, j \in Workers :
       wire[c][j].posted /\ Completed(w, c) => wire[c][j].pass >= pass[w]

C11_Witness ==
  \E w \in Workers :
    /\ pass[w] = 1 /\ Completed(w, CountsC)
    /\ pass[1 - w] = 1 /\ ~Completed(1 - w, CountsC)
    /\ topk_experts[0] # topk_experts[1]

====
